---- MODULE Spec2Model ----
(***************************************************************************)
(* Model of src/ml/hybrid_weather_model.py: the hybrid weather forecaster   *)
(* (baseline + ridge + kNN ensemble) and its orchestrator run_model.        *)
(*                                                                         *)
(* Numbers.  A Python float is modelled as a fixed-point integer counting   *)
(* units of 1/SCALE; products and quotients are rescaled and rounded down.  *)
(* The not-a-number float is the distinguished value NaN and Python's None  *)
(* (a JSON null, or a key that a mapping does not hold) is the value None.  *)
(* Every arithmetic operator below propagates NaN and every comparison with *)
(* NaN is false, as in IEEE arithmetic.                                     *)
(*                                                                         *)
(* The process-wide random source of module `random` is the variable rng:   *)
(* a small linear congruential generator stands for the Mersenne Twister.   *)
(* random.seed overwrites rng, random.shuffle draws from it and advances it *)
(* and nothing else touches it; it outlives every call.                     *)
(*                                                                         *)
(* Payloads.  A payload carries every config key (the defaults of lines     *)
(* 192-198 are not exercised); a feature a mapping lacks and a null feature *)
(* are both None, which is what dict.get returns for either.  The two       *)
(* thresholds 1e-12 (pivot) and 1e-6 (RMSE floor) lie below the fixed-point *)
(* resolution and are modelled as its smallest positive unit.               *)
(*                                                                         *)
(* One call of run_model is the chain of steps Call, Split, PrepareTrain,   *)
(* Fit, Calibrate, Predict: each step is taken as soon as the one before it *)
(* is done, and the call ends in pc = "returned" (a result) or "raised"     *)
(* (an exception leaves run_model).                                         *)
(***************************************************************************)
EXTENDS Integers, Sequences, FiniteSets, TLC

VARIABLES
  rng,            \* state of the process-wide random source (module random)
  pc,             \* position of the current run_model call
  payload,        \* the argument of the current call
  feature_keys,   \* local feature_keys (after the default list is applied)
  train_set,      \* local train_set: references to (positions of) the
                  \* records of training_data, in shuffled order
  calib_set,      \* local calib_set, likewise
  X_train, y_high_train, y_low_train,
  model_high, model_low,
  X_calib, y_high_calib, y_low_calib,
  baseline_high, baseline_low,     \* per-calibration-row baseline columns
  ridge_high, ridge_low, knn_high, knn_low,
  weights_high, weights_low,
  result,         \* the returned dictionary, once pc = "returned"
  ref             \* <<>> or <<an earlier call's payload and outcome>>

vars == <<rng, pc, payload, feature_keys, train_set, calib_set, X_train, y_high_train, y_low_train, model_high, model_low,
          X_calib, y_high_calib, y_low_calib, baseline_high, baseline_low,
          ridge_high, ridge_low, knn_high, knn_low, weights_high, weights_low,
          result, ref>>

----------------------------------------------------------------------------
(* Bounds and number representation *)

\* Longest training_data sequence (and longest vector handed to _calc_weights).
MaxRecords == 2

\* Fixed-point units per 1.0.
SCALE == 100

NaN == -(10^9)
None == NaN - 1

IsNaN(x) == x = NaN

FAdd(a, b) == IF IsNaN(a) \/ IsNaN(b) THEN NaN ELSE a + b
FSub(a, b) == IF IsNaN(a) \/ IsNaN(b) THEN NaN ELSE a - b
FMul(a, b) == IF IsNaN(a) \/ IsNaN(b) THEN NaN ELSE (a * b) \div SCALE
\* b # 0 at every use, as in the source
FDiv(a, b) == IF IsNaN(a) \/ IsNaN(b) THEN NaN ELSE (a * SCALE) \div b
Lt(a, b) == ~IsNaN(a) /\ ~IsNaN(b) /\ a < b
Gt(a, b) == Lt(b, a)
Abs(a) == IF a < 0 THEN -a ELSE a

\* Python's two-argument min / max: the first argument unless the second is
\* strictly smaller / larger (so a NaN first argument is returned as is).
PyMin(a, b) == IF Lt(b, a) THEN b ELSE a
PyMax(a, b) == IF Gt(b, a) THEN b ELSE a

IMin(a, b) == IF b < a THEN b ELSE a
IMax(a, b) == IF b > a THEN b ELSE a

RECURSIVE SqrtSearch(_, _, _)
SqrtSearch(n, lo, hi) ==
  IF lo >= hi THEN lo
  ELSE LET mid == (lo + hi + 1) \div 2
       IN IF mid * mid <= n THEN SqrtSearch(n, mid, hi)
                            ELSE SqrtSearch(n, lo, mid - 1)

\* math.sqrt on fixed-point units: sqrt(x / SCALE) * SCALE = sqrt(x * SCALE)
FSqrt(x) == IF IsNaN(x) THEN NaN ELSE SqrtSearch(x * SCALE, 0, IMin(x * SCALE, 46340))

\* float / int with an integer divisor n > 0
FDivInt(a, n) == IF IsNaN(a) THEN NaN ELSE a \div n

RECURSIVE FSum(_)
FSum(s) == IF s = <<>> THEN 0 ELSE FAdd(Head(s), FSum(Tail(s)))

\* zip(a, b): pairs up to the shorter length
ZipLen(a, b) == IMin(Len(a), Len(b))

----------------------------------------------------------------------------
(* Helpers of the source, lines 15-187 *)

\* A payload number is already a float (fixed-point units); None and, in the
\* source, anything float() rejects become NaN.
_safe_float(value) == IF value = None THEN NaN ELSE value

_mean(values) == IF values = <<>> THEN 0 ELSE FDivInt(FSum(values), Len(values))

_std(values) ==
  IF Len(values) < 2 THEN 0
  ELSE LET mu == _mean(values)
           sq == [i \in 1..Len(values) |->
                    FMul(FSub(values[i], mu), FSub(values[i], mu))]
           var == FDivInt(FSum(sq), Len(values) - 1)
       IN FSqrt(var)

_rmse(y_true, y_pred) ==
  IF y_true = <<>> THEN 0
  ELSE LET sq == [i \in 1..ZipLen(y_true, y_pred) |->
                    FMul(FSub(y_true[i], y_pred[i]), FSub(y_true[i], y_pred[i]))]
       IN FSqrt(FDivInt(FSum(sq), Len(y_true)))

Column(X, j) == [i \in 1..Len(X) |-> X[i][j]]

_apply_standardize(x, means, stds) ==
  [j \in 1..Len(x) |-> FDiv(FSub(x[j], means[j]), stds[j])]

_standardize(X) ==
  IF X = <<>> THEN [Xs |-> X, means |-> <<>>, stds |-> <<>>]
  ELSE LET cols == Len(X[1])
           means == [j \in 1..cols |-> _mean(Column(X, j))]
           stds == [j \in 1..cols |->
                      LET sigma == _std(Column(X, j))
                      IN IF sigma = 0 THEN SCALE ELSE sigma]
       IN [Xs |-> [i \in 1..Len(X) |-> _apply_standardize(X[i], means, stds)],
           means |-> means, stds |-> stds]

_transpose(matrix) ==
  IF matrix = <<>> THEN <<>>
  ELSE [j \in 1..Len(matrix[1]) |-> Column(matrix, j)]

\* sum(a * b for a, b in zip(row, v))
Dot(row, v) == FSum([i \in 1..ZipLen(row, v) |-> FMul(row[i], v[i])])

_matvec(A, v) == [i \in 1..Len(A) |-> Dot(A[i], v)]

_matmul(A, B) ==
  LET Bt == _transpose(B)
  IN [i \in 1..Len(A) |-> [j \in 1..Len(Bt) |-> Dot(A[i], Bt[j])]]

\* abs(pivot) < 1e-12: below the fixed-point resolution, i.e. a zero pivot
PivotEps == 1

RECURSIVE PivotRow(_, _, _, _)
\* lines 84-87: the first row r >= i of largest |M[r][i]|
PivotRow(M, i, r, pivot) ==
  IF r > Len(M) THEN pivot
  ELSE PivotRow(M, i, r + 1,
                IF Abs(M[r][i]) > Abs(M[pivot][i]) THEN r ELSE pivot)

RECURSIVE GaussLoop(_, _)
GaussLoop(M, i) ==
  LET n == Len(M)
  IN IF i > n THEN [r \in 1..n |-> M[r][n + 1]]
     ELSE LET pivot == PivotRow(M, i, i + 1, i)
          IN IF Abs(M[pivot][i]) < PivotEps THEN [r \in 1..n |-> 0]
             ELSE LET Msw == [r \in 1..n |->
                                IF r = i THEN M[pivot]
                                ELSE IF r = pivot THEN M[i] ELSE M[r]]
                      div == Msw[i][i]
                      rowi == [c \in 1..(n + 1) |-> FDiv(Msw[i][c], div)]
                      Mel == [r \in 1..n |->
                                IF r = i THEN rowi
                                ELSE [c \in 1..(n + 1) |->
                                        FSub(Msw[r][c], FMul(Msw[r][i], rowi[c]))]]
                  IN GaussLoop(Mel, i + 1)

_gaussian_solve(A, b) ==
  GaussLoop([i \in 1..Len(A) |-> Append(A[i], b[i])], 1)

\* An unfitted model (line 104) holds no "means"/"stds" keys; run_model only
\* fits a non-empty X_train (line 236), so the empty sequences are never read.
_ridge_fit(X, y, alpha) ==
  IF X = <<>> THEN [weights |-> <<>>, bias |-> 0, means |-> <<>>, stds |-> <<>>]
  ELSE LET st == _standardize(X)
           Xb == [i \in 1..Len(X) |-> <<SCALE>> \o st.Xs[i]]
           Xt == _transpose(Xb)
           XtX0 == _matmul(Xt, Xb)
           XtX == [i \in 1..Len(XtX0) |->
                     [j \in 1..Len(XtX0[i]) |->
                        IF i = j THEN FAdd(XtX0[i][j], alpha) ELSE XtX0[i][j]]]
           Xty == _matvec(Xt, y)
           coeffs == _gaussian_solve(XtX, Xty)
       IN [weights |-> Tail(coeffs), bias |-> Head(coeffs),
           means |-> st.means, stds |-> st.stds]

_ridge_predict(model, x) ==
  IF model.weights = <<>> THEN NaN
  ELSE LET xs == _apply_standardize(x, model.means, model.stds)
       IN FAdd(model.bias, Dot(model.weights, xs))

RECURSIVE InsertByDistance(_, _)
\* list.sort(key=d) is stable: an element goes after the equal ones before it
InsertByDistance(sorted, e) ==
  IF sorted = <<>> THEN <<e>>
  ELSE IF Lt(e[1], Head(sorted)[1]) THEN <<e>> \o sorted
       ELSE <<Head(sorted)>> \o InsertByDistance(Tail(sorted), e)

RECURSIVE SortByDistance(_)
SortByDistance(s) ==
  IF s = <<>> THEN <<>>
  ELSE InsertByDistance(SortByDistance(SubSeq(s, 1, Len(s) - 1)), s[Len(s)])

_knn_predict(train_X, train_y, x, k) ==
  IF train_X = <<>> THEN NaN
  ELSE LET distances ==
             [i \in 1..ZipLen(train_X, train_y) |->
                <<FSqrt(FSum([j \in 1..ZipLen(train_X[i], x) |->
                                FMul(FSub(train_X[i][j], x[j]),
                                     FSub(train_X[i][j], x[j]))])),
                  train_y[i]>>]
           sorted == SortByDistance(distances)
           kk == IMax(1, IMin(k, Len(distances)))
           neighbors == [i \in 1..IMin(kk, Len(sorted)) |-> sorted[i][2]]
       IN _mean(neighbors)

\* The RMSE floor 1e-6 (lines 147-149), as the smallest positive fixed-point unit
RmseFloor == 1

FloorRmse(r) == IF Gt(r, RmseFloor) THEN r ELSE RmseFloor

\* Weights that follow the RMSE itself instead of its inverse
_calc_weightsDirect(y_true, base_pred, ridge_pred, knn_pred) ==
  LET rmse_base == FloorRmse(_rmse(y_true, base_pred))
      rmse_ridge == FloorRmse(_rmse(y_true, ridge_pred))
      rmse_knn == FloorRmse(_rmse(y_true, knn_pred))
      total == rmse_base + rmse_ridge + rmse_knn
  IN [baseline |-> FDiv(rmse_base, total),
      ridge |-> FDiv(rmse_ridge, total),
      knn |-> FDiv(rmse_knn, total)]

_calc_weights(y_true, base_pred, ridge_pred, knn_pred) ==
  LET rmse_base == FloorRmse(_rmse(y_true, base_pred))
      rmse_ridge == FloorRmse(_rmse(y_true, ridge_pred))
      rmse_knn == FloorRmse(_rmse(y_true, knn_pred))
      inv == <<FDiv(SCALE, rmse_base), FDiv(SCALE, rmse_ridge), FDiv(SCALE, rmse_knn)>>
      total == FSum(inv)
  IN [baseline |-> FDiv(inv[1], total),
      ridge |-> FDiv(inv[2], total),
      knn |-> FDiv(inv[3], total)]

----------------------------------------------------------------------------
(* The random source: random.seed and random.shuffle *)

\* The states of the generator: r -> 5 r + 3 (mod 4), of full period
RngStates == 0..3

RngStep(r) == (5 * r + 3) % 4

\* What a call that does not reseed would draw from: the state left behind
SeededStale(seed) == rng

\* random.seed(seed)
Seeded(seed) == seed % 4

Swap(s, i, j) == [s EXCEPT ![i] = s[j], ![j] = s[i]]

RECURSIVE ShuffleFrom(_, _, _)
\* random.shuffle: for i from the last position down to the second, swap
\* x[i] with x[j], j drawn from the positions up to i.
ShuffleFrom(x, i, r) ==
  IF i < 2 THEN [list |-> x, rng |-> r]
  ELSE LET r1 == RngStep(r)
           j == (r1 % i) + 1
       IN ShuffleFrom(Swap(x, i, j), i - 1, r1)

\* A split whose calibration slice starts one position early
_split_dataOverlap(data, split, r) ==
  IF data = <<>> THEN [train |-> <<>>, calib |-> <<>>, rng |-> r]
  ELSE LET sh == ShuffleFrom(data, Len(data), r)
           cut == IMax(1, (Len(data) * (split[2] - split[1])) \div split[2])
       IN [train |-> SubSeq(sh.list, 1, cut),
           calib |-> SubSeq(sh.list, cut, Len(data)),
           rng |-> sh.rng]

\* split is the fraction <<numerator, denominator>>;
\* int(len * (1 - split)) = floor(len * (den - num) / den)
_split_data(data, split, r) ==
  IF data = <<>> THEN [train |-> <<>>, calib |-> <<>>, rng |-> r]
  ELSE LET sh == ShuffleFrom(data, Len(data), r)
           cut == IMax(1, (Len(data) * (split[2] - split[1])) \div split[2])
       IN [train |-> SubSeq(sh.list, 1, cut),
           calib |-> SubSeq(sh.list, cut + 1, Len(data)),
           rng |-> sh.rng]

----------------------------------------------------------------------------
(* Data preparation and clipping *)

\* mapping.get(k): None when the key is absent
Get(mapping, k) == IF k \in DOMAIN mapping THEN mapping[k] ELSE None

FeatureRow(features, keys) ==
  [j \in 1..Len(keys) |-> _safe_float(Get(features, keys[j]))]

HasNaN(row) == \E j \in 1..Len(row) : IsNaN(row[j])

\* lines 171-178: the sample is kept
Kept(sample, keys, target_key) ==
  /\ ~HasNaN(FeatureRow(sample.features, keys))
  /\ ~IsNaN(_safe_float(Get(sample, target_key)))

RECURSIVE KeptPositions(_, _, _, _)
\* the positions in samples of the kept samples, in order
KeptPositions(samples, keys, target_key, i) ==
  IF i > Len(samples) THEN <<>>
  ELSE (IF Kept(samples[i], keys, target_key) THEN <<i>> ELSE <<>>)
       \o KeptPositions(samples, keys, target_key, i + 1)

_prepare_matrix(samples, keys, target_key) ==
  LET kept == KeptPositions(samples, keys, target_key, 1)
  IN [X |-> [i \in 1..Len(kept) |-> FeatureRow(samples[kept[i]].features, keys)],
      y |-> [i \in 1..Len(kept) |-> _safe_float(Get(samples[kept[i]], target_key))]]

_clip(value, baseline, clip_delta) ==
  LET lower == FSub(baseline, clip_delta)
      upper == FAdd(baseline, clip_delta)
  IN PyMax(lower, PyMin(upper, value))

----------------------------------------------------------------------------
(* Payloads *)

\* n degrees as a float
Deg(n) == n * SCALE

FkBaseline == <<"baseline_high", "baseline_low">>
FkA == <<"a">>

\* lines 206-216
DefaultFeatureKeys ==
  <<"baseline_high", "baseline_low", "spread_high", "spread_low", "lead_days",
    "day_of_year_sin", "day_of_year_cos", "lat", "lon">>

\* feature_keys of a payload; <<>> stands for an absent or empty list
FeatureKeyLists == {<<>>, FkBaseline, FkA}

Rec(a, bh, bl, th, tl) ==
  [features |-> [a |-> a, baseline_high |-> bh, baseline_low |-> bl],
   target_high |-> th, target_low |-> tl]

\* Historical records: two complete ones, one without feature a and without
\* target_high, one without target_low, and one holding feature a only.
Records ==
  { Rec(Deg(1), Deg(2), Deg(0), Deg(3), Deg(1)),
    Rec(Deg(2), Deg(4), Deg(1), Deg(4), Deg(2)),
    Rec(None, Deg(3), Deg(1), None, Deg(0)),
    Rec(Deg(1), Deg(3), Deg(0), Deg(3), None),
    Rec(Deg(1), None, None, Deg(10), Deg(0)) }

TrainingSets == UNION {[1..n -> Records] : n \in 0..MaxRecords}

\* Current-time features: complete, feature a only, baselines only.
CurrentFeatures ==
  { [a |-> Deg(1), baseline_high |-> Deg(10), baseline_low |-> Deg(0)],
    [a |-> Deg(1), baseline_high |-> None, baseline_low |-> None],
    [a |-> None, baseline_high |-> Deg(3), baseline_low |-> Deg(1)] }

\* calibration_split as <<numerator, denominator>>: 0, 1/2 and 1
Splits == {<<0, 1>>, <<1, 2>>, <<1, 1>>}

\* sigma_floor is 0.25 and sigma_fallback absent or 0.1
Configs ==
  [ridge_alpha : {Deg(1)}, knn_k : {1, 2}, min_samples : {1, 2},
   calibration_split : Splits, clip_delta : {Deg(1)},
   sigma_floor : {SCALE \div 4}, seed : {0, 1},
   sigma_fallback : {None, SCALE \div 10}]

Payloads ==
  [config : Configs, training_data : TrainingSets,
   features : CurrentFeatures, feature_keys : FeatureKeyLists]

----------------------------------------------------------------------------
(* run_model, lines 190-338, as a sequence of steps *)

NoPayload ==
  [config |-> [ridge_alpha |-> 0, knn_k |-> 0, min_samples |-> 0,
               calibration_split |-> <<0, 1>>, clip_delta |-> 0,
               sigma_floor |-> 0, seed |-> 0, sigma_fallback |-> None],
   training_data |-> <<>>,
   features |-> [a |-> None, baseline_high |-> None, baseline_low |-> None],
   feature_keys |-> <<>>]
NoModel == [weights |-> <<>>, bias |-> 0, means |-> <<>>, stds |-> <<>>]
NoWeights == [baseline |-> 0, ridge |-> 0, knn |-> 0]
NoResult ==
  [forecast_high |-> None, forecast_low |-> None, sigma_high |-> None,
   sigma_low |-> None, status |-> "none", samples |-> None]

\* A fallback that coerces the baseline with _safe_float before returning it
FallbackCoerced(features, config, status, samples) ==
  [forecast_high |-> _safe_float(Get(features, "baseline_high")),
   forecast_low |-> _safe_float(Get(features, "baseline_low")),
   sigma_high |-> Get(config, "sigma_fallback"),
   sigma_low |-> Get(config, "sigma_fallback"),
   status |-> status, samples |-> samples]

\* lines 219-228, 237-246, 270-278: the baseline-only result
Fallback(features, config, status, samples) ==
  [forecast_high |-> Get(features, "baseline_high"),
   forecast_low |-> Get(features, "baseline_low"),
   sigma_high |-> Get(config, "sigma_fallback"),
   sigma_low |-> Get(config, "sigma_fallback"),
   status |-> status, samples |-> samples]

\* the records a list of references holds
Deref(refs) == [i \in 1..Len(refs) |-> payload.training_data[refs[i]]]

Range(s) == {s[i] : i \in 1..Len(s)}

\* list.index(name), for a name the list holds
IndexOf(keys, name) == CHOOSE i \in 1..Len(keys) :
                         keys[i] = name /\ \A j \in 1..(i - 1) : keys[j] # name

locals == <<feature_keys, train_set, calib_set, X_train, y_high_train,
            y_low_train, model_high, model_low, X_calib, y_high_calib,
            y_low_calib, baseline_high, baseline_low, ridge_high, ridge_low,
            knn_high, knn_low, weights_high, weights_low>>

Init ==
  /\ rng \in RngStates
  /\ pc = "idle"
  /\ payload = NoPayload
  /\ feature_keys = <<>>
  /\ train_set = <<>> /\ calib_set = <<>>
  /\ X_train = <<>> /\ y_high_train = <<>> /\ y_low_train = <<>>
  /\ model_high = NoModel /\ model_low = NoModel
  /\ X_calib = <<>> /\ y_high_calib = <<>> /\ y_low_calib = <<>>
  /\ baseline_high = <<>> /\ baseline_low = <<>>
  /\ ridge_high = <<>> /\ ridge_low = <<>> /\ knn_high = <<>> /\ knn_low = <<>>
  /\ weights_high = NoWeights /\ weights_low = NoWeights
  /\ result = NoResult
  /\ ref = <<>>

\* lines 190-228: read the config, reseed the random source, default the
\* feature keys, and return at once when there are too few records
Call(p) ==
  /\ pc = "idle"
  /\ payload' = p
  /\ rng' = Seeded(p.config.seed)
  /\ feature_keys' = IF p.feature_keys = <<>> THEN DefaultFeatureKeys
                                              ELSE p.feature_keys
  /\ IF Len(p.training_data) < p.config.min_samples
       THEN /\ result' = Fallback(p.features, p.config, "insufficient_training_data",
                                  Len(p.training_data))
            /\ pc' = "returned"
       ELSE /\ result' = result
            /\ pc' = "split"
  /\ UNCHANGED <<train_set, calib_set, X_train, y_high_train, y_low_train,
                 model_high, model_low, X_calib, y_high_calib, y_low_calib,
                 baseline_high, baseline_low, ridge_high, ridge_low, knn_high,
                 knn_low, weights_high, weights_low, ref>>

\* lines 230-232
Split ==
  /\ pc = "split"
  /\ LET sp == _split_data([i \in 1..Len(payload.training_data) |-> i],
                           payload.config.calibration_split, rng)
     IN /\ rng' = sp.rng
        /\ train_set' = sp.train
        /\ calib_set' = IF sp.calib = <<>> THEN sp.train ELSE sp.calib
  /\ pc' = "prepare"
  /\ UNCHANGED <<payload, feature_keys, X_train, y_high_train, y_low_train,
                 model_high, model_low, X_calib, y_high_calib, y_low_calib,
                 baseline_high, baseline_low, ridge_high, ridge_low, knn_high,
                 knn_low, weights_high, weights_low, result, ref>>

\* lines 234-246
PrepareTrain ==
  /\ pc = "prepare"
  /\ LET hi == _prepare_matrix(Deref(train_set), feature_keys, "target_high")
         lo == _prepare_matrix(Deref(train_set), feature_keys, "target_low")
     IN /\ X_train' = hi.X
        /\ y_high_train' = hi.y
        /\ y_low_train' = lo.y
        /\ IF hi.X = <<>> \/ Len(hi.y) < payload.config.min_samples
             THEN /\ result' = Fallback(payload.features, payload.config,
                                        "training_filtered", Len(hi.X))
                  /\ pc' = "returned"
             ELSE /\ result' = result
                  /\ pc' = "fit"
  /\ UNCHANGED <<rng, payload, feature_keys, train_set, calib_set,
                 model_high, model_low, X_calib, y_high_calib, y_low_calib,
                 baseline_high, baseline_low, ridge_high, ridge_low, knn_high,
                 knn_low, weights_high, weights_low, ref>>

\* lines 248-249
Fit ==
  /\ pc = "fit"
  /\ model_high' = _ridge_fit(X_train, y_high_train, payload.config.ridge_alpha)
  /\ model_low' = _ridge_fit(X_train, y_low_train, payload.config.ridge_alpha)
  /\ pc' = "calibrate"
  /\ UNCHANGED <<rng, payload, feature_keys, train_set, calib_set, X_train,
                 y_high_train, y_low_train, X_calib, y_high_calib, y_low_calib,
                 baseline_high, baseline_low, ridge_high, ridge_low, knn_high,
                 knn_low, weights_high, weights_low, result, ref>>

\* line 254
XCalibStd(X, model) ==
  [i \in 1..Len(X) |-> _apply_standardize(X[i], model.means, model.stds)]

\* line 265 / 266
WeightsOrDefault(y, base, ridge, knn) ==
  IF y # <<>> THEN _calc_weights(y, base, ridge, knn)
  ELSE [baseline |-> SCALE \div 2, ridge |-> (3 * SCALE) \div 10,
        knn |-> SCALE \div 5]

\* lines 256-257 raise ValueError: list.index of a name the list lacks
IndexRaises(X, keys) ==
  X # <<>> /\ ("baseline_high" \notin Range(keys) \/ "baseline_low" \notin Range(keys))

\* lines 251-266
Calibrate ==
  /\ pc = "calibrate"
  /\ LET hi == _prepare_matrix(Deref(calib_set), feature_keys, "target_high")
         lo == _prepare_matrix(Deref(calib_set), feature_keys, "target_low")
         Xstd == XCalibStd(hi.X, model_high)
         k == payload.config.knn_k
     IN IF IndexRaises(hi.X, feature_keys)
        THEN /\ pc' = "raised"
             /\ UNCHANGED <<X_calib, y_high_calib, y_low_calib, baseline_high,
                            baseline_low, ridge_high, ridge_low, knn_high,
                            knn_low, weights_high, weights_low>>
        ELSE LET bh == [i \in 1..Len(hi.X) |->
                          hi.X[i][IndexOf(feature_keys, "baseline_high")]]
                 bl == [i \in 1..Len(hi.X) |->
                          hi.X[i][IndexOf(feature_keys, "baseline_low")]]
                 rh == [i \in 1..Len(hi.X) |-> _ridge_predict(model_high, hi.X[i])]
                 rl == [i \in 1..Len(hi.X) |-> _ridge_predict(model_low, hi.X[i])]
                 kh == [i \in 1..Len(hi.X) |->
                          _knn_predict(Xstd, hi.y,
                            _apply_standardize(hi.X[i], model_high.means,
                                               model_high.stds), k)]
                 kl == [i \in 1..Len(hi.X) |->
                          _knn_predict(Xstd, lo.y,
                            _apply_standardize(hi.X[i], model_low.means,
                                               model_low.stds), k)]
             IN /\ pc' = "predict"
                /\ X_calib' = hi.X
                /\ y_high_calib' = hi.y
                /\ y_low_calib' = lo.y
                /\ baseline_high' = bh
                /\ baseline_low' = bl
                /\ ridge_high' = rh
                /\ ridge_low' = rl
                /\ knn_high' = kh
                /\ knn_low' = kl
                /\ weights_high' = WeightsOrDefault(hi.y, bh, rh, kh)
                /\ weights_low' = WeightsOrDefault(lo.y, bl, rl, kl)
  /\ UNCHANGED <<rng, payload, feature_keys, train_set, calib_set, X_train,
                 y_high_train, y_low_train, model_high, model_low, result, ref>>

\* lines 292-301 and 307-318: the weighted sum of the three predictions
Blend(w, b, r, k) ==
  FAdd(FAdd(FMul(w.baseline, b), FMul(w.ridge, r)), FMul(w.knn, k))

\* Sigma without the floor
SigmaUnfloored(w, base, ridge, knn, y, sigma_floor) ==
  LET n == IMin(Len(base), IMin(Len(ridge), Len(knn)))
      ensemble == [i \in 1..n |-> Blend(w, base[i], ridge[i], knn[i])]
      residuals == [i \in 1..ZipLen(y, ensemble) |-> FSub(y[i], ensemble[i])]
  IN _std(residuals)

\* lines 307-323: sigma from the calibration residuals
Sigma(w, base, ridge, knn, y, sigma_floor) ==
  LET n == IMin(Len(base), IMin(Len(ridge), Len(knn)))
      ensemble == [i \in 1..n |-> Blend(w, base[i], ridge[i], knn[i])]
      residuals == [i \in 1..ZipLen(y, ensemble) |-> FSub(y[i], ensemble[i])]
  IN PyMax(_std(residuals), sigma_floor)

\* lines 268-338
Predict ==
  /\ pc = "predict"
  /\ LET features == payload.features
         config == payload.config
         x_current == FeatureRow(features, feature_keys)
         baseline_current_high == _safe_float(Get(features, "baseline_high"))
         baseline_current_low == _safe_float(Get(features, "baseline_low"))
         Xstd == XCalibStd(X_calib, model_high)
         ridge_pred_high == _ridge_predict(model_high, x_current)
         ridge_pred_low == _ridge_predict(model_low, x_current)
         x_std_high == _apply_standardize(x_current, model_high.means, model_high.stds)
         x_std_low == _apply_standardize(x_current, model_low.means, model_low.stds)
         knn_pred_high == IF Xstd # <<>>
                          THEN _knn_predict(Xstd, y_high_calib, x_std_high, config.knn_k)
                          ELSE baseline_current_high
         knn_pred_low == IF Xstd # <<>>
                         THEN _knn_predict(Xstd, y_low_calib, x_std_low, config.knn_k)
                         ELSE baseline_current_low
         blended_high == Blend(weights_high, baseline_current_high,
                               ridge_pred_high, knn_pred_high)
         blended_low == Blend(weights_low, baseline_current_low,
                              ridge_pred_low, knn_pred_low)
     IN result' =
          IF HasNaN(x_current)
          THEN Fallback(features, config, "invalid_features", None)
          ELSE [forecast_high |-> _clip(blended_high, baseline_current_high,
                                        config.clip_delta),
                forecast_low |-> _clip(blended_low, baseline_current_low,
                                       config.clip_delta),
                sigma_high |-> Sigma(weights_high, baseline_high, ridge_high,
                                     knn_high, y_high_calib, config.sigma_floor),
                sigma_low |-> Sigma(weights_low, baseline_low, ridge_low,
                                    knn_low, y_low_calib, config.sigma_floor),
                status |-> "ok", samples |-> Len(X_train)]
  /\ pc' = "returned"
  /\ UNCHANGED <<rng, payload, locals, ref>>

\* The call is over (returned or raised): its locals are gone, the random
\* source keeps its state for the next call.
Return(remembered) ==
  /\ pc \in {"returned", "raised"}
  /\ pc' = "idle"
  /\ payload' = NoPayload
  /\ feature_keys' = <<>>
  /\ train_set' = <<>> /\ calib_set' = <<>>
  /\ X_train' = <<>> /\ y_high_train' = <<>> /\ y_low_train' = <<>>
  /\ model_high' = NoModel /\ model_low' = NoModel
  /\ X_calib' = <<>> /\ y_high_calib' = <<>> /\ y_low_calib' = <<>>
  /\ baseline_high' = <<>> /\ baseline_low' = <<>>
  /\ ridge_high' = <<>> /\ ridge_low' = <<>> /\ knn_high' = <<>> /\ knn_low' = <<>>
  /\ weights_high' = NoWeights /\ weights_low' = NoWeights
  /\ result' = NoResult
  /\ ref' = remembered
  /\ UNCHANGED rng

Finish == Return(ref)

CallAny == pc = "idle" /\ \E p \in Payloads : Call(p)

Next == CallAny \/ Split \/ PrepareTrain \/ Fit \/ Calibrate \/ Predict \/ Finish

Spec == Init /\ [][Next]_vars

----------------------------------------------------------------------------
(* Repeated calls with one earlier call remembered *)

RecA == Rec(Deg(1), Deg(2), Deg(0), Deg(3), Deg(1))

\* Two-record payloads whose outcome depends on which record is drawn into
\* the training subset.
DetPayloads ==
  {p \in Payloads :
     /\ p.config.min_samples = 1
     /\ p.config.sigma_fallback = None
     /\ p.feature_keys = FkBaseline
     /\ p.features.baseline_high = Deg(10)
     /\ Len(p.training_data) = 2
     /\ p.training_data[1] = RecA}

CallDet == pc = "idle" /\ \E p \in DetPayloads : Call(p)

\* The caller keeps this call's payload and outcome for a later comparison
FinishRemember ==
  Return(<<[payload |-> payload, outcome |-> pc, result |-> result]>>)

NextDet ==
  CallDet \/ Split \/ PrepareTrain \/ Fit \/ Calibrate \/ Predict \/ Finish
  \/ FinishRemember

SpecDet == Init /\ [][NextDet]_vars

----------------------------------------------------------------------------
(* _calc_weights on its own, over bounded argument vectors *)

TargetValues == {Deg(0), Deg(2)}
PredValues == {NaN, Deg(0), Deg(3)}

InitWeights ==
  /\ rng = 0
  /\ pc = "calc_weights"
  /\ payload = NoPayload
  /\ feature_keys = <<>>
  /\ train_set = <<>> /\ calib_set = <<>>
  /\ X_train = <<>> /\ y_high_train = <<>> /\ y_low_train = <<>>
  /\ model_high = NoModel /\ model_low = NoModel
  /\ X_calib = <<>> /\ y_low_calib = <<>>
  /\ \E m \in 1..MaxRecords : y_high_calib \in [1..m -> TargetValues]
  /\ \E n \in 1..MaxRecords :
       /\ baseline_high \in [1..n -> PredValues]
       /\ ridge_high \in [1..n -> PredValues]
       /\ knn_high \in [1..n -> PredValues]
  /\ baseline_low = <<>> /\ ridge_low = <<>> /\ knn_low = <<>>
  /\ weights_high = NoWeights /\ weights_low = NoWeights
  /\ result = NoResult
  /\ ref = <<>>

\* line 265, with y_true non-empty
CalcWeights ==
  /\ pc = "calc_weights"
  /\ weights_high' = _calc_weights(y_high_calib, baseline_high, ridge_high, knn_high)
  /\ pc' = "weights_done"
  /\ UNCHANGED <<rng, payload, feature_keys, train_set, calib_set, X_train,
                 y_high_train, y_low_train, model_high, model_low, X_calib,
                 y_high_calib, y_low_calib, baseline_high, baseline_low,
                 ridge_high, ridge_low, knn_high, knn_low, weights_low, result, ref>>

NextWeights == CalcWeights

SpecWeights == InitWeights /\ [][NextWeights]_vars

----------------------------------------------------------------------------
(* Properties *)

IsNumber(x) == x # None /\ x # NaN
Le(a, b) == IsNumber(a) /\ IsNumber(b) /\ a <= b

Statuses == {"insufficient_training_data", "training_filtered",
             "invalid_features", "ok"}
FallbackStatuses == Statuses \ {"ok"}

\* the call has passed line 246: both ridge models are, or will be, fitted
ReachedFit == pc \in {"fit", "calibrate", "predict"}

BaselineUntouched ==
  /\ result.forecast_high = Get(payload.features, "baseline_high")
  /\ result.forecast_low = Get(payload.features, "baseline_low")

\* C1: a call whose training_data holds fewer than min_samples records has
\* returned, with status insufficient_training_data and with forecast_high /
\* forecast_low being the payload's baseline_high / baseline_low, unchanged.
C1_InsufficientReturnsBaseline ==
  (pc # "idle" /\ Len(payload.training_data) < payload.config.min_samples)
    => /\ pc = "returned"
       /\ result.status = "insufficient_training_data"
       /\ BaselineUntouched

C1_Witness ==
  /\ pc = "returned"
  /\ result.status = "insufficient_training_data"
  /\ Len(payload.training_data) = 1
  /\ payload.config.min_samples = 2
  /\ result.forecast_high = Deg(10)

\* C2: run_model never raises: every call ends by returning a result whose
\* status is one of the four terminal statuses.
C2_NeverRaises ==
  /\ pc # "raised"
  /\ pc = "returned" => result.status \in Statuses

\* C3: no returned result carries a not-a-number value: a fallback result is
\* the untouched baseline with sigma_fallback, and an ok result holds four
\* real numbers.
C3_NoNaNResult ==
  pc = "returned" =>
    /\ result.status \in FallbackStatuses =>
         /\ BaselineUntouched
         /\ result.sigma_high = payload.config.sigma_fallback
         /\ result.sigma_low = payload.config.sigma_fallback
    /\ result.status = "ok" =>
         /\ IsNumber(result.forecast_high) /\ IsNumber(result.forecast_low)
         /\ IsNumber(result.sigma_high) /\ IsNumber(result.sigma_low)

WithinClip(forecast, baseline, clip_delta) ==
  /\ Le(FSub(baseline, clip_delta), forecast)
  /\ Le(forecast, FAdd(baseline, clip_delta))

\* C4: in every ok result the forecast lies within clip_delta of the current
\* baseline, inclusive, for high and for low.
C4_ForecastWithinClip ==
  (pc = "returned" /\ result.status = "ok") =>
    /\ WithinClip(result.forecast_high,
                  _safe_float(Get(payload.features, "baseline_high")),
                  payload.config.clip_delta)
    /\ WithinClip(result.forecast_low,
                  _safe_float(Get(payload.features, "baseline_low")),
                  payload.config.clip_delta)

\* C5 as stated: in every returned result, whatever its status, sigma_high
\* and sigma_low are not below sigma_floor.
C5_SigmaNeverBelowFloor ==
  pc = "returned" =>
    /\ Le(payload.config.sigma_floor, result.sigma_high)
    /\ Le(payload.config.sigma_floor, result.sigma_low)

\* C5 amended: in every ok result sigma_high and sigma_low are not below
\* sigma_floor; a fallback result carries config.sigma_fallback as it is.
C5_SigmaFloorWhenOk ==
  pc = "returned" =>
    /\ result.status = "ok" =>
         /\ Le(payload.config.sigma_floor, result.sigma_high)
         /\ Le(payload.config.sigma_floor, result.sigma_low)
    /\ result.status \in FallbackStatuses =>
         /\ result.sigma_high = payload.config.sigma_fallback
         /\ result.sigma_low = payload.config.sigma_fallback

\* an ok result whose sigma_high is the floor itself and whose sigma_low is a
\* residual deviation above the floor
C5_Witness ==
  /\ pc = "returned"
  /\ result.status = "ok"
  /\ Len(y_high_calib) = 2
  /\ result.sigma_high = payload.config.sigma_floor
  /\ result.sigma_low > payload.config.sigma_floor

\* C6 as stated: once ridge fitting is reached, the calibration set shares no
\* record with the training subset.
C6_CalibDisjoint ==
  ReachedFit => Range(calib_set) \cap Range(train_set) = {}

\* max(1, int(n * (1 - split))) of line 164
Cut(n, split) == IMax(1, (n * (split[2] - split[1])) \div split[2])

\* C6 amended: once ridge fitting is reached, the calibration set is
\* non-empty and shares no record with the training subset when the split
\* leaves records over (cut < n); when it leaves none (calibration_split 0,
\* or a single record) the calibration set is the training subset itself.
C6_CalibDisjointOrReused ==
  ReachedFit =>
    LET n == Len(payload.training_data)
    IN IF Cut(n, payload.config.calibration_split) < n
       THEN /\ calib_set # <<>>
            /\ Range(calib_set) \cap Range(train_set) = {}
            /\ Range(calib_set) \cup Range(train_set) = 1..n
       ELSE calib_set = train_set

C6_Witness ==
  /\ pc = "fit"
  /\ Len(train_set) = 1 /\ Len(calib_set) = 1
  /\ train_set # calib_set

\* C7: for a non-empty target vector, the three weights are non-negative,
\* sum to 1 (up to the rounding of the three divisions), and follow the
\* inverse of the floored RMSE: a predictor with a strictly lower floored RMSE
\* gets no smaller weight, and equal floored RMSEs get equal weights.
C7_WeightsNormalised ==
  pc = "weights_done" =>
    LET w == weights_high
        rb == FloorRmse(_rmse(y_high_calib, baseline_high))
        rr == FloorRmse(_rmse(y_high_calib, ridge_high))
        rk == FloorRmse(_rmse(y_high_calib, knn_high))
        Ordered(r1, w1, r2, w2) == /\ r1 < r2 => w1 >= w2
                                   /\ r1 = r2 => w1 = w2
    IN /\ w.baseline >= 0 /\ w.ridge >= 0 /\ w.knn >= 0
       /\ w.baseline + w.ridge + w.knn <= SCALE
       /\ w.baseline + w.ridge + w.knn >= SCALE - 2
       /\ Ordered(rb, w.baseline, rr, w.ridge)
       /\ Ordered(rr, w.ridge, rb, w.baseline)
       /\ Ordered(rb, w.baseline, rk, w.knn)
       /\ Ordered(rk, w.knn, rb, w.baseline)
       /\ Ordered(rr, w.ridge, rk, w.knn)
       /\ Ordered(rk, w.knn, rr, w.ridge)

C7_Witness ==
  /\ pc = "weights_done"
  /\ Len(y_high_calib) = 2
  /\ _rmse(y_high_calib, ridge_high) < _rmse(y_high_calib, baseline_high)
  /\ ~IsNaN(_rmse(y_high_calib, ridge_high))
  /\ weights_high.ridge > weights_high.baseline
  /\ weights_high.baseline > 0

\* C8: a call whose payload (seed included) equals that of a remembered
\* earlier call ends the same way with the same result, whatever calls ran
\* before or between the two.
C8_Deterministic ==
  (pc \in {"returned", "raised"} /\ ref # <<>> /\ ref[1].payload = payload)
    => (ref[1].outcome = pc /\ ref[1].result = result)

C8_Witness ==
  /\ pc = "returned"
  /\ ref # <<>>
  /\ ref[1].payload = payload
  /\ result.status = "ok"
  /\ Len(train_set) = 1 /\ Len(calib_set) = 1

\* line 173-178 for both targets: nothing of the record is missing
Complete(sample, keys) ==
  Kept(sample, keys, "target_high") /\ Kept(sample, keys, "target_low")

\* C9: training_filtered is returned only because records were dropped: with
\* at least min_samples records, all of them complete, it is never returned.
C9_FilteredOnlyWhenDropped ==
  (pc = "returned" /\ result.status = "training_filtered") =>
    ~ /\ Len(payload.training_data) >= payload.config.min_samples
      /\ \A i \in 1..Len(payload.training_data) :
            Complete(payload.training_data[i], feature_keys)

\* y[i] is the target_key value of the record that row i of the high-target
\* feature matrix was built from
ParallelTo(y, samples, keys, target_key) ==
  LET kept == KeptPositions(samples, keys, "target_high", 1)
  IN /\ Len(y) = Len(kept)
     /\ \A i \in 1..Len(kept) :
          y[i] = _safe_float(Get(samples[kept[i]], target_key))

\* C10: once ridge fitting is reached, the feature matrix and the target_low
\* vector are parallel, for the training subset and for the calibration set.
C10_LowTargetsParallel ==
  /\ ReachedFit =>
       /\ Len(X_train) = Len(y_low_train)
       /\ ParallelTo(y_low_train, Deref(train_set), feature_keys, "target_low")
  /\ pc = "predict" =>
       /\ Len(X_calib) = Len(y_low_calib)
       /\ ParallelTo(y_low_calib, Deref(calib_set), feature_keys, "target_low")

====
